---------------------------- MODULE Spec2Model ----------------------------
(***************************************************************************)
(* Client-side synchronisation and reconciliation engine of the chat app:  *)
(* the message store (src/src/stores/messageStore.js), the participant     *)
(* store (src/unnamed/part_001), the session store                         *)
(* (src/src/state/sessionStore.js), the polling hook useRealtimeUpdates    *)
(* (src/unnamed/part_012) and the send / react / initialise handlers of    *)
(* the App component that uses them (src/unnamed/part_004).                *)
(*                                                                         *)
(* JavaScript objects are modelled as TLA+ records whose DOMAIN is the set *)
(* of properties the object has: a property that is undefined in the       *)
(* object is absent from the record.  The literal null (a non-object       *)
(* element of a server array) is the record NullRec.                       *)
(***************************************************************************)
EXTENDS Integers, Sequences, FiniteSets, Bags, TLC

VARIABLES
    messages,        \* useMessageStore.messages: newest-first list of messages
    msgError,        \* useMessageStore.error
    participants,    \* useParticipantStore.participants: uuid -> participant
    sessionUuid,     \* useSessionStore.sessionUuid
    connected,       \* useSessionStore.connected
    isOnline,        \* useConnectionMonitor: isOnline
    retryCount,      \* useRealtimeUpdates: retryCount state
    lastError,       \* useRealtimeUpdates: lastError state
    isPolling,       \* useRealtimeUpdates: isPolling state
    pollIntervalRef, \* pollIntervalRef.current, with the timer it identifies
    orphanTimers,    \* bag of pending poll timers no reference identifies
    cycles,          \* bag of performSync calls awaiting their two fetches
    mountedRef,      \* mountedRef.current
    lastUpdateRef,   \* lastUpdateRef.current: the sync cursor
    sends,           \* sendMessage: calls started, whether one is awaited, and
                     \* (history) the calls the server confirmed
    initPc,          \* initializeApp: the await it is suspended at
    documentHidden,  \* document.hidden
    hist             \* history variable: what the last step did

vars == <<messages, msgError, participants, sessionUuid, connected, isOnline,
          retryCount, lastError, isPolling, pollIntervalRef, orphanTimers,
          cycles, mountedRef, lastUpdateRef, sends, initPc, documentHidden,
          hist>>

hookVars == <<retryCount, lastError, isPolling, pollIntervalRef, orphanTimers,
              cycles, mountedRef, lastUpdateRef>>

-----------------------------------------------------------------------------
(* Bounds of the model.                                                    *)

MaxMsgs == 3        \* the store is not grown beyond this many messages
MaxStored == 1      \* the same, where every mutator is called with every input
MaxBatch == 2       \* longest array a server response carries
MaxInFlight == 3    \* most performSync calls awaiting their fetches at once
MaxOrphans == 1     \* most pending poll timers that no reference identifies
MaxRetryCount == 4  \* retryCount is not incremented beyond this
MaxSends == 2       \* sendMessage calls made

-----------------------------------------------------------------------------
(* JavaScript values.                                                      *)

\* {...a, ...b}: the properties of b override those of a.
Spread(a, b) == b @@ a

Has(o, f) == f \in DOMAIN o

\* o.f is a non-empty string (a truthy value)
Truthy(o, f) == Has(o, f) /\ o[f] # ""

\* null, as an element of an array where an object is expected
NullRec == [null |-> TRUE]
IsObject(m) == ~Has(m, "null")

\* Number.NaN; times are the integers 1..; Math.max of anything with NaN is NaN.
NaN == -1
MathMax(a, b) == IF a = NaN \/ b = NaN THEN NaN ELSE IF a >= b THEN a ELSE b

\* the reading of the clock (Date.now()); the model's clock stands still
Now == 2

\* new Date(m.createdAt).getTime(): NaN when createdAt is undefined
GetTime(m) == IF Has(m, "createdAt") THEN m.createdAt ELSE NaN

RECURSIVE MaxOf(_)
\* Math.max(...times) of a non-empty list
MaxOf(ts) == IF Len(ts) = 1 THEN ts[1] ELSE MathMax(ts[1], MaxOf(Tail(ts)))

Map(s, F(_)) == [i \in 1..Len(s) |-> F(s[i])]

Uuids(msgs) == {msgs[i].uuid : i \in 1..Len(msgs)}

\* messages.findIndex(m => m.uuid === uuid), 0 for -1
FindIndex(msgs, uuid) ==
    IF \E i \in 1..Len(msgs) : msgs[i].uuid = uuid
    THEN CHOOSE i \in 1..Len(msgs) :
            /\ msgs[i].uuid = uuid
            /\ \A j \in 1..(i - 1) : msgs[j].uuid # uuid
    ELSE 0

-----------------------------------------------------------------------------
(* The message store: each mutator as a function from the messages list    *)
(* and its arguments to the new messages list.                             *)

DefaultParticipant == [name |-> "Unknown User", uuid |-> "unknown"]

\* Array.isArray(msg.reactions) ? msg.reactions : []
ReactionsOrEmpty(msg) == IF Has(msg, "reactions") THEN msg.reactions ELSE <<>>

\* processedMsg.hasReactions = processedMsg.reactions.length > 0
WithHasReactions(msg) == Spread(msg, [hasReactions |-> Len(msg.reactions) > 0])

\* the uuid setMessages synthesises for a record that has none
FallbackUuid == "fallback-1"

setMessages(msgs) ==
    LET Valid(m) == IsObject(m)
        Proc(m) ==
            WithHasReactions(Spread(m,
                [participant |-> IF Has(m, "participant") THEN m.participant
                                 ELSE DefaultParticipant,
                 uuid |-> IF Truthy(m, "uuid") THEN m.uuid ELSE FallbackUuid,
                 text |-> IF Truthy(m, "text") THEN m.text ELSE "",
                 createdAt |-> IF Has(m, "createdAt") THEN m.createdAt ELSE Now,
                 status |-> IF Truthy(m, "status") THEN m.status ELSE "sent",
                 reactions |-> ReactionsOrEmpty(m)]))
    IN  Map(SelectSeq(msgs, Valid), Proc)

addMessage(msgs, msg) ==
    IF ~IsObject(msg) \/ ~Truthy(msg, "uuid") THEN msgs
    ELSE IF msg.uuid \in Uuids(msgs) THEN msgs
    ELSE LET p == IF Has(msg, "participant") THEN msg.participant
                  ELSE DefaultParticipant
             withDefaults ==
                Spread(msg,
                    [participant |->
                        Spread(p, [name |-> IF Truthy(p, "name") THEN p.name
                                            ELSE "Unknown User",
                                   uuid |-> IF Truthy(p, "uuid") THEN p.uuid
                                            ELSE "unknown"]),
                     text |-> IF Truthy(msg, "text") THEN msg.text ELSE "",
                     createdAt |-> IF Has(msg, "createdAt") THEN msg.createdAt
                                   ELSE Now,
                     status |-> IF Truthy(msg, "status") THEN msg.status
                                ELSE "sent",
                     reactions |-> ReactionsOrEmpty(msg)])
         IN  <<WithHasReactions(withDefaults)>> \o msgs

\* addMessages without the check against the stored uuids
addMessagesNoDedup(msgs, newMessages) ==
    LET Keep(m) == IsObject(m) /\ Truthy(m, "uuid")
        Proc(m) ==
            WithHasReactions(Spread(m,
                [participant |-> IF Has(m, "participant") THEN m.participant
                                 ELSE DefaultParticipant,
                 reactions |-> ReactionsOrEmpty(m)]))
    IN  Map(SelectSeq(newMessages, Keep), Proc) \o msgs

addMessages(msgs, newMessages) ==
    LET existingUuids == Uuids(msgs)
        Keep(m) == IsObject(m) /\ Truthy(m, "uuid") /\ m.uuid \notin existingUuids
        Proc(m) ==
            WithHasReactions(Spread(m,
                [participant |-> IF Has(m, "participant") THEN m.participant
                                 ELSE DefaultParticipant,
                 reactions |-> ReactionsOrEmpty(m)]))
        uniqueNewMessages == Map(SelectSeq(newMessages, Keep), Proc)
    IN  IF Len(uniqueNewMessages) > 0 THEN uniqueNewMessages \o msgs ELSE msgs

\* updateMessage storing the spread of the updates as it is, the derived
\* hasReactions not recomputed
updateMessageNoRecompute(msgs, uuid, updates) ==
    LET messageIndex == FindIndex(msgs, uuid) IN
    IF uuid = "" \/ messageIndex = 0 THEN msgs
    ELSE [msgs EXCEPT ![messageIndex] = Spread(msgs[messageIndex], updates)]

updateMessage(msgs, uuid, updates) ==
    LET messageIndex == FindIndex(msgs, uuid) IN
    IF uuid = "" \/ ~IsObject(updates) \/ messageIndex = 0 THEN msgs
    ELSE LET originalMessage == msgs[messageIndex]
             updatedMessage ==
                Spread(Spread(originalMessage, updates),
                    [participant |->
                        IF Has(updates, "participant")
                           /\ Truthy(updates.participant, "name")
                        THEN updates.participant
                        ELSE IF Has(originalMessage, "participant")
                             THEN originalMessage.participant
                             ELSE DefaultParticipant,
                     reactions |->
                        IF Has(updates, "reactions") THEN updates.reactions
                        ELSE ReactionsOrEmpty(originalMessage)])
         IN  [msgs EXCEPT ![messageIndex] = WithHasReactions(updatedMessage)]

removeMessage(msgs, uuid) ==
    LET Other(m) == m.uuid # uuid IN
    IF uuid = "" THEN msgs ELSE SelectSeq(msgs, Other)

\* r.emoji || r.type
EmojiOf(r) == IF Truthy(r, "emoji") THEN r.emoji
              ELSE IF Has(r, "type") THEN r.type ELSE ""

\* r.participants, [] when undefined
ParticipantsOf(r) == IF Has(r, "participants") THEN r.participants ELSE <<>>

Includes(s, x) == \E i \in 1..Len(s) : s[i] = x

\* the reactions list addReaction computes from the existing one
\* a toggle that knows the "create new reaction" branch only
toggledReactionsAppendOnly(existingReactions, emoji, userId) ==
    Append(existingReactions,
        [emoji |-> emoji, type |-> emoji, count |-> 1,
         participants |-> <<userId>>])

toggledReactions(existingReactions, emoji, userId) ==
    LET n == Len(existingReactions)
        Mine(r) == EmojiOf(r) = emoji /\ Includes(ParticipantsOf(r), userId)
        SameEmoji(r) == EmojiOf(r) = emoji
        existingReactionIndex ==
            IF \E i \in 1..n : Mine(existingReactions[i])
            THEN CHOOSE i \in 1..n :
                    /\ Mine(existingReactions[i])
                    /\ \A j \in 1..(i - 1) : ~Mine(existingReactions[j])
            ELSE 0
        existingEmojiIndex ==
            IF \E i \in 1..n : SameEmoji(existingReactions[i])
            THEN CHOOSE i \in 1..n :
                    /\ SameEmoji(existingReactions[i])
                    /\ \A j \in 1..(i - 1) : ~SameEmoji(existingReactions[j])
            ELSE 0
        NotUser(p) == p # userId
    IN  IF existingReactionIndex # 0
        THEN LET reaction == existingReactions[existingReactionIndex]
                 updatedParticipants == SelectSeq(ParticipantsOf(reaction), NotUser)
             IN  IF Len(updatedParticipants) = 0
                 THEN [i \in 1..(n - 1) |->
                          IF i < existingReactionIndex THEN existingReactions[i]
                          ELSE existingReactions[i + 1]]
                 ELSE [existingReactions EXCEPT ![existingReactionIndex] =
                          Spread(reaction,
                              [count |-> Len(updatedParticipants),
                               participants |-> updatedParticipants])]
        ELSE IF existingEmojiIndex # 0
        THEN LET r == existingReactions[existingEmojiIndex]
             IN  [existingReactions EXCEPT ![existingEmojiIndex] =
                     Spread(r,
                         [count |-> (IF Has(r, "count") THEN r.count ELSE 0) + 1,
                          participants |-> Append(ParticipantsOf(r), userId)])]
        ELSE Append(existingReactions,
                 [emoji |-> emoji, type |-> emoji, count |-> 1,
                  participants |-> <<userId>>])

addReaction(msgs, messageUuid, emoji, userId) ==
    LET messageIndex == FindIndex(msgs, messageUuid) IN
    IF messageUuid = "" \/ emoji = "" \/ messageIndex = 0 THEN msgs
    ELSE LET message == msgs[messageIndex]
             updatedReactions ==
                toggledReactions(ReactionsOrEmpty(message), emoji, userId)
         IN  [msgs EXCEPT ![messageIndex] =
                 Spread(message,
                     [reactions |-> updatedReactions,
                      hasReactions |-> Len(updatedReactions) > 0])]

\* validateStoreIntegrity: the hasReactions consistency check of one message
hasReactionsMismatch(msg) ==
    LET computedHasReactions == Has(msg, "reactions") /\ Len(msg.reactions) > 0
    IN  ~Has(msg, "hasReactions") \/ msg.hasReactions # computedHasReactions

-----------------------------------------------------------------------------
(* The participant store.                                                  *)

\* setParticipants with an array: a table keyed by uuid, a later record of
\* the same uuid replacing an earlier one
setParticipants(participantData) ==
    LET Keyed(p) == IsObject(p) /\ Truthy(p, "uuid")
        valid == SelectSeq(participantData, Keyed)
        Last(u) == CHOOSE i \in 1..Len(valid) :
                      /\ valid[i].uuid = u
                      /\ \A j \in (i + 1)..Len(valid) : valid[j].uuid # u
    IN  [u \in {valid[i].uuid : i \in 1..Len(valid)} |-> valid[Last(u)]]

updateParticipant(parts, uuid, updates) ==
    IF uuid = "" \/ ~IsObject(updates) THEN parts
    ELSE IF uuid \in DOMAIN parts
         THEN [parts EXCEPT ![uuid] = Spread(parts[uuid], updates)]
         ELSE parts

clearParticipants == <<>>

-----------------------------------------------------------------------------
(* Records the server can deliver, and the inputs of the store's callers.  *)

Like == "like"
Heart == "heart"
Emojis == {Like, Heart}

\* the confirmed message apiService.sendMessage resolves to
Srv9 == [uuid |-> "srv-9", text |-> "hi", authorUuid |-> "you", createdAt |-> 3]

\* a message older than the cursor, with reactions of two emojis
M1 == [uuid |-> "m1", text |-> "yo", authorUuid |-> "a", createdAt |-> 1,
       reactions |-> <<[emoji |-> Like, count |-> 1, participants |-> <<"you">>],
                       [emoji |-> Heart, count |-> 1, participants |-> <<"a">>]>>]

\* a message without createdAt, text and reactions
M2 == [uuid |-> "m2", authorUuid |-> "a"]

\* a later version of m1: its count is not the number of listed participants
M1b == [uuid |-> "m1", text |-> "yo", authorUuid |-> "a", createdAt |-> 1,
        reactions |-> <<[emoji |-> Like, count |-> 3, participants |-> <<"a">>]>>]


\* the optimistic message of sendMessage / handleSendMessage
OptimisticMessage(tempId) ==
    [uuid |-> tempId, text |-> "hi", authorUuid |-> "you",
     participant |-> [uuid |-> "you", name |-> "You"],
     createdAt |-> Now, status |-> "sending", reactions |-> <<>>]

TempIds == {"temp-1", "temp-2"}

\* the arrays of at most MaxBatch elements of pool
Arrays(pool) == UNION {[1..n -> pool] : n \in 0..MaxBatch}

InitAll ==
    /\ messages = <<>>
    /\ msgError = "null"
    /\ participants = <<>>
    /\ sessionUuid = ""
    /\ connected = FALSE
    /\ isOnline = TRUE
    /\ retryCount = 0
    /\ lastError = "null"
    /\ isPolling = FALSE
    /\ pollIntervalRef = [current |-> "null"]
    /\ orphanTimers = EmptyBag
    /\ cycles = EmptyBag
    /\ mountedRef = TRUE
    /\ lastUpdateRef = Now
    /\ sends = [n |-> 0, sending |-> FALSE, confirmed |-> {}]
    /\ initPc = "getServerInfo"
    /\ documentHidden = FALSE
    /\ hist = [op |-> "init", stopped |-> FALSE]

nonStoreVars == <<participants, sessionUuid, connected, isOnline, hookVars,
                  sends, initPc, documentHidden>>

-----------------------------------------------------------------------------
(* The message cache under its three additive operations: upsertMany       *)
(* (addMessages), insertOptimistic (addMessage of an optimistic message)   *)
(* and the reconcile of the send path (removeMessage of the temporary id,  *)
(* then addMessage of the server message).                                 *)

CachePool == {Srv9, M1, M2}

UpsertMany(batch) ==
    /\ Len(addMessages(messages, batch)) <= MaxMsgs
    /\ messages' = addMessages(messages, batch)
    /\ hist' = [op |-> "addMessages"]
    /\ UNCHANGED <<msgError, nonStoreVars>>

InsertOptimistic(tempId) ==
    /\ Len(messages) < MaxMsgs
    /\ messages' = addMessage(messages, OptimisticMessage(tempId))
    /\ hist' = [op |-> "addMessage"]
    /\ UNCHANGED <<msgError, nonStoreVars>>

ReconcileOptimistic(tempId, serverMessage) ==
    /\ messages' = addMessage(removeMessage(messages, tempId), serverMessage)
    /\ Len(messages') <= MaxMsgs
    /\ hist' = [op |-> "reconcile", tempId |-> tempId]
    /\ UNCHANGED <<msgError, nonStoreVars>>

NextCache ==
    \/ \E batch \in Arrays(CachePool) : UpsertMany(batch)
    \/ \E tempId \in TempIds : InsertOptimistic(tempId)
    \/ \E tempId \in TempIds : ReconcileOptimistic(tempId, Srv9)

SpecCache == InitAll /\ [][NextCache]_vars

NoDuplicateUuid ==
    \A i, j \in 1..Len(messages) : messages[i].uuid = messages[j].uuid => i = j

\* C1: under every sequence of addMessages, addMessage and send-path
\* reconciles the store never holds two messages with the same uuid, also
\* when one addMessages batch carries the same uuid twice.
C1_NoDuplicateUuid == NoDuplicateUuid

-----------------------------------------------------------------------------
(* The message store under all of its mutators, called with the arguments  *)
(* their callers build: server arrays (initializeApp, performSync), the    *)
(* optimistic message and the updates of the send path (handleSendMessage),*)
(* and the reaction toggle (handleReact).                                  *)

StorePool == {M1, M1b, M2, NullRec}

StoreUuids == {"m1", "m2", "temp-1"}

\* the updates objects handed to updateMessage
UpdatePool ==
    {[status |-> "failed"],
     [reactions |-> <<[emoji |-> Heart, count |-> 1, participants |-> <<"a">>]>>,
      hasReactions |-> FALSE],
     [hasReactions |-> TRUE]}

\* the reactions list of the first message stored under uuid
StoredReactions(uuid) == ReactionsOrEmpty(messages[FindIndex(messages, uuid)])

SetMessages(msgs) ==
    /\ Len(setMessages(msgs)) <= MaxStored
    /\ messages' = setMessages(msgs)
    /\ msgError' = "null"
    /\ hist' = [op |-> "setMessages"]
    /\ UNCHANGED nonStoreVars

AddMessage(msg) ==
    /\ Len(messages) < MaxStored
    /\ messages' = addMessage(messages, msg)
    /\ hist' = [op |-> "addMessage"]
    /\ UNCHANGED <<msgError, nonStoreVars>>

AddMessages(newMessages) ==
    /\ Len(addMessages(messages, newMessages)) <= MaxStored
    /\ messages' = addMessages(messages, newMessages)
    /\ hist' = [op |-> "addMessages"]
    /\ UNCHANGED <<msgError, nonStoreVars>>

UpdateMessage(uuid, updates) ==
    /\ messages' = updateMessage(messages, uuid, updates)
    /\ hist' = [op |-> "updateMessage", updates |-> updates,
                found |-> FindIndex(messages, uuid) # 0]
    /\ UNCHANGED <<msgError, nonStoreVars>>

RemoveMessage(uuid) ==
    /\ messages' = removeMessage(messages, uuid)
    /\ hist' = [op |-> "removeMessage"]
    /\ UNCHANGED <<msgError, nonStoreVars>>

\* hist counts the calls made in succession with the same arguments (n) and
\* keeps the reactions the message had before the first of them (before).
AddReaction(messageUuid, emoji, userId) ==
    /\ messages' = addReaction(messages, messageUuid, emoji, userId)
    /\ hist' =
        IF FindIndex(messages, messageUuid) = 0 THEN [op |-> "addReaction", n |-> 0]
        ELSE IF /\ hist.op = "addReaction"
                /\ hist.n = 1
                /\ hist.uuid = messageUuid
                /\ hist.emoji = emoji
                /\ hist.userId = userId
             THEN [hist EXCEPT !.n = 2]
             ELSE [op |-> "addReaction", n |-> 1, uuid |-> messageUuid,
                   emoji |-> emoji, userId |-> userId,
                   before |-> StoredReactions(messageUuid)]
    /\ UNCHANGED <<msgError, nonStoreVars>>

NextStore ==
    \/ \E msgs \in Arrays(StorePool) : SetMessages(msgs)
    \/ \E msg \in StorePool \cup {OptimisticMessage("temp-1")} : AddMessage(msg)
    \/ \E newMessages \in Arrays(StorePool) : AddMessages(newMessages)
    \/ \E uuid \in StoreUuids, updates \in UpdatePool : UpdateMessage(uuid, updates)
    \/ \E uuid \in StoreUuids : RemoveMessage(uuid)
    \/ \E uuid \in StoreUuids, emoji \in Emojis : AddReaction(uuid, emoji, "you")

SpecStore == InitAll /\ [][NextStore]_vars

ToggledTwice == hist.op = "addReaction" /\ hist.n = 2

\* C4: two addReaction calls in succession with the same message, emoji and
\* user leave the message's reactions list (entries, order, participants,
\* counts) as it was before the first call.
C4_ToggleTwiceRestores ==
    ToggledTwice => StoredReactions(hist.uuid) = hist.before

\* C5: every stored message's hasReactions equals the value recomputed from
\* its reactions list (validateStoreIntegrity finds no hasReactions mismatch).
C5_HasReactionsConsistent ==
    \A i \in 1..Len(messages) : ~hasReactionsMismatch(messages[i])

\* updateMessage was called on a stored message with updates that carry a
\* hasReactions, and the stored value is the recomputed one, not the carried
C5_Witness ==
    /\ hist.op = "updateMessage"
    /\ hist.found
    /\ Has(hist.updates, "hasReactions")
    /\ \E i \in 1..Len(messages) :
          messages[i].hasReactions # hist.updates.hasReactions

-----------------------------------------------------------------------------
(* The polling hook useRealtimeUpdates.                                    *)
(*                                                                         *)
(* A callback of the hook reads connected and retryCount from the render   *)
(* that created it.  The model renders at the end of every step that       *)
(* changes state the hook reads, and runs the effects whose dependencies   *)
(* changed; a poll loop keeps the callbacks of the render that started it: *)
(* a cycle in flight and a pending timer carry that render's retryCount    *)
(* (cRetry).  performSync is only started where connected was true.        *)

maxRetries == 3
pollInterval == 5000
backoffMultiplier == 2

RECURSIVE Pow(_, _)
Pow(b, e) == IF e = 0 THEN 1 ELSE b * Pow(b, e - 1)

NullRef == [current |-> "null"]
StaleRef == [current |-> "stale"]

\* the fields of the hook that its callbacks write, as one record
Hook ==
    [ref |-> pollIntervalRef, orphans |-> orphanTimers, cycles |-> cycles,
     isPolling |-> isPolling, lastError |-> lastError]

\* pollIntervalRef.current = setTimeout(poll, delay): a timer the reference
\* identified and that is still pending stays pending
setTimeoutPoll(h, cRetry, delay) ==
    [h EXCEPT
        !.ref = [current |-> "armed", cRetry |-> cRetry, delay |-> delay],
        !.orphans = IF h.ref.current = "armed"
                    THEN @ (+) SetToBag({[cRetry |-> h.ref.cRetry,
                                          delay |-> h.ref.delay]})
                    ELSE @]

\* performSync up to its await of the two fetches
performSyncStart(h, isConnected, isMounted, kind, cRetry) ==
    IF ~isConnected \/ ~isMounted THEN h
    ELSE [h EXCEPT
            !.cycles = @ (+) SetToBag({[kind |-> kind, cRetry |-> cRetry,
                                        since |-> lastUpdateRef,
                                        stopped |-> FALSE]}),
            !.isPolling = TRUE,
            !.lastError = "null"]

\* poll up to its await of performSync
poll(h, isMounted, cRetry) ==
    IF ~isMounted THEN h ELSE performSyncStart(h, TRUE, isMounted, "poll", cRetry)

startPolling(h, enablePolling, isMounted, cRetry) ==
    IF ~enablePolling \/ h.ref.current # "null" THEN h
    ELSE poll(h, isMounted, cRetry)

\* (history) the cycles in flight, marked as having seen a stopPolling
MarkStopped(B) ==
    [c \in {[x EXCEPT !.stopped = TRUE] : x \in BagToSet(B)} |->
        CopiesIn(c, B) + CopiesIn([c EXCEPT !.stopped = FALSE], B)]

stopPolling(h) ==
    [h EXCEPT !.ref = NullRef, !.isPolling = FALSE, !.cycles = MarkStopped(@)]

\* the effect "start/stop polling based on connection status", run again
\* (its cleanup first) after a render in which connected, enablePolling or
\* retryCount changed.  enablePolling is connected && isOnline.
pollingEffect(h, changed, isConnected, online, cRetry) ==
    IF ~changed \/ ~mountedRef THEN h
    ELSE IF isConnected /\ (isConnected /\ online)
         THEN startPolling(stopPolling(h), isConnected /\ online, TRUE, cRetry)
         ELSE stopPolling(stopPolling(h))

\* handleSessionChange(newSessionUuid), in a callback whose render read
\* renderedSessionUuid from the session store: whether it resets the state
handleSessionChange(newSessionUuid, renderedSessionUuid) ==
    newSessionUuid # renderedSessionUuid

\* the effect "handle session changes" calls handleSessionChange(sessionUuid)
\* with the sessionUuid of the render that created the callback
sessionEffectResets(renderedSessionUuid) ==
    handleSessionChange(renderedSessionUuid, renderedSessionUuid)

Commit(h) ==
    /\ pollIntervalRef' = h.ref
    /\ orphanTimers' = h.orphans
    /\ cycles' = h.cycles
    /\ isPolling' = h.isPolling
    /\ lastError' = h.lastError

WithinBounds ==
    /\ Len(messages') <= MaxMsgs
    /\ retryCount' <= MaxRetryCount
    /\ BagCardinality(cycles') <= MaxInFlight
    /\ BagCardinality(orphanTimers') <= MaxOrphans

\* stopPolling has been called and no poll loop has been started since
StoppedAfter(changed, isConnected, online) ==
    IF changed /\ mountedRef THEN ~(isConnected /\ online) ELSE hist.stopped

\* message.participant || {uuid: message.authorUuid || 'unknown', ...}
withParticipant(message) ==
    Spread(message,
        [participant |->
            IF Has(message, "participant") THEN message.participant
            ELSE [uuid |-> IF Truthy(message, "authorUuid")
                           THEN message.authorUuid ELSE "unknown",
                  name |-> "Unknown User"]])

HasNull(array) == \E i \in 1..Len(array) : ~IsObject(array[i])

RECURSIVE applyParticipantUpdates(_, _)
\* participantsResult.value.forEach(p => updateParticipant(p.uuid, p)), up
\* to the first null element (reading its uuid throws)
applyParticipantUpdates(parts, array) ==
    IF array = <<>> \/ ~IsObject(Head(array)) THEN parts
    ELSE applyParticipantUpdates(
            updateParticipant(parts,
                IF Has(Head(array), "uuid") THEN Head(array).uuid ELSE "",
                Head(array)),
            Tail(array))

\* one performSync call from the arrival of its two results to its end, then
\* the rest of its caller (poll or forceSync), then the render; fetches is
\* (history) what the two requests of the cycle met on the network
SyncSettle(c, messagesResult, participantsValue, fetches) ==
    /\ BagIn(c, cycles)
    /\ messagesResult.status = "rejected" => c.since = NaN
    /\ LET fetched == /\ messagesResult.status = "fulfilled"
                      /\ Len(messagesResult.value) > 0
           mapThrows == fetched /\ HasNull(messagesResult.value)
           ingest == fetched /\ ~mapThrows
           processedMessages ==
               IF ingest THEN Map(messagesResult.value, withParticipant) ELSE <<>>
           latestMessageTime ==
               IF ingest THEN MaxOf(Map(processedMessages, GetTime)) ELSE NaN
           forEachThrows == ~mapThrows /\ HasNull(participantsValue)
           failed == mapThrows \/ forEachThrows
           disconnect == failed /\ c.cRetry >= maxRetries
           retry1 == IF ~mountedRef THEN retryCount
                     ELSE IF failed THEN retryCount + 1 ELSE 0
           connected1 == IF disconnect THEN FALSE ELSE connected
           h0 == [Hook EXCEPT
                    !.cycles = @ (-) SetToBag({c}),
                    !.isPolling = FALSE,
                    !.lastError = IF failed /\ mountedRef THEN "sync failed" ELSE @]
           reschedule ==
               /\ c.kind = "poll"
               /\ mountedRef
               /\ ~failed \/ c.cRetry < maxRetries
           h1 == IF reschedule
                 THEN setTimeoutPoll(h0, c.cRetry,
                        IF failed
                        THEN pollInterval * Pow(backoffMultiplier, c.cRetry)
                        ELSE pollInterval)
                 ELSE h0
           changed == connected1 # connected \/ retry1 # retryCount
       IN  /\ messages' = IF ingest THEN addMessages(messages, processedMessages)
                          ELSE messages
           /\ lastUpdateRef' = IF ingest
                               THEN MathMax(lastUpdateRef, latestMessageTime)
                               ELSE lastUpdateRef
           /\ participants' = IF mapThrows THEN participants
                              ELSE applyParticipantUpdates(participants,
                                                           participantsValue)
           /\ retryCount' = retry1
           /\ connected' = connected1
           /\ msgError' = IF disconnect
                          THEN "Connection lost. Trying to reconnect..."
                          ELSE msgError
           /\ Commit(pollingEffect(h1, changed, connected1, isOnline, retry1))
           /\ hist' = [op |-> "syncComplete",
                       stopped |-> StoppedAfter(changed, connected1, isOnline),
                       applied |-> \/ messages' # messages
                                   \/ participants' # participants
                                   \/ lastUpdateRef' # lastUpdateRef,
                       teardown |-> ~mountedRef \/ (c.stopped /\ hist.stopped),
                       kind |-> c.kind,
                       failed |-> failed,
                       fetches |-> fetches,
                       afterStop |-> reschedule /\ ~changed /\ hist.stopped]
    /\ WithinBounds
    /\ UNCHANGED <<sessionUuid, isOnline, mountedRef, sends, initPc,
                   documentHidden>>

\* the same, the network outcomes of the two requests left out
SyncComplete(c, messagesResult, participantsValue) ==
    SyncSettle(c, messagesResult, participantsValue, [known |-> FALSE])

\* a poll timer fires: the one pollIntervalRef identifies ...
TimerFires ==
    /\ pollIntervalRef.current = "armed"
    /\ Commit(poll([Hook EXCEPT !.ref = StaleRef], mountedRef,
                   pollIntervalRef.cRetry))
    /\ hist' = [op |-> "timerFires", stopped |-> hist.stopped,
                afterStop |-> mountedRef /\ hist.stopped]
    /\ BagCardinality(cycles') <= MaxInFlight
    /\ UNCHANGED <<messages, msgError, participants, sessionUuid, connected,
                   isOnline, retryCount, mountedRef, lastUpdateRef, sends,
                   initPc, documentHidden>>

\* ... or one that no reference identifies any more
OrphanTimerFires(t) ==
    /\ BagIn(t, orphanTimers)
    /\ Commit(poll([Hook EXCEPT !.orphans = @ (-) SetToBag({t})], mountedRef,
                   t.cRetry))
    /\ hist' = [op |-> "timerFires", stopped |-> hist.stopped,
                afterStop |-> mountedRef /\ hist.stopped]
    /\ BagCardinality(cycles') <= MaxInFlight
    /\ UNCHANGED <<messages, msgError, participants, sessionUuid, connected,
                   isOnline, retryCount, mountedRef, lastUpdateRef, sends,
                   initPc, documentHidden>>

\* a forceSync that puts the retry counter back to zero when it is called
ForceSyncResetting ==
    /\ mountedRef
    /\ connected
    /\ Commit(performSyncStart(Hook, connected, mountedRef, "force", 0))
    /\ retryCount' = 0
    /\ hist' = [op |-> "forceSync", stopped |-> hist.stopped]
    /\ BagCardinality(cycles') <= MaxInFlight
    /\ UNCHANGED <<messages, msgError, participants, sessionUuid, connected,
                   isOnline, mountedRef, lastUpdateRef, sends,
                   initPc, documentHidden>>

\* forceSync(), from the pull-to-refresh handler of the App
ForceSync ==
    /\ mountedRef
    /\ connected
    /\ Commit(performSyncStart(Hook, connected, mountedRef, "force", retryCount))
    /\ hist' = [op |-> "forceSync", stopped |-> hist.stopped]
    /\ BagCardinality(cycles') <= MaxInFlight
    /\ UNCHANGED <<messages, msgError, participants, sessionUuid, connected,
                   isOnline, retryCount, mountedRef, lastUpdateRef, sends,
                   initPc, documentHidden>>

\* handleVisibilityChange, document.hidden having become true ...
VisibilityHidden ==
    /\ mountedRef
    /\ ~documentHidden
    /\ documentHidden' = TRUE
    /\ Commit(stopPolling(Hook))
    /\ hist' = [op |-> "other", stopped |-> TRUE]
    /\ UNCHANGED <<messages, msgError, participants, sessionUuid, connected,
                   isOnline, retryCount, mountedRef, lastUpdateRef, sends,
                   initPc>>

\* ... and false
VisibilityVisible ==
    /\ mountedRef
    /\ documentHidden
    /\ documentHidden' = FALSE
    /\ LET enablePolling == connected /\ isOnline
           resume == connected /\ enablePolling
           h1 == performSyncStart(Hook, connected, mountedRef, "force", retryCount)
           h2 == startPolling(h1, enablePolling, mountedRef, retryCount)
       IN  /\ Commit(IF resume THEN h2 ELSE Hook)
           /\ hist' = [op |-> "other",
                       stopped |-> IF resume /\ pollIntervalRef.current = "null"
                                   THEN FALSE ELSE hist.stopped]
    /\ BagCardinality(cycles') <= MaxInFlight
    /\ UNCHANGED <<messages, msgError, participants, sessionUuid, connected,
                   isOnline, retryCount, mountedRef, lastUpdateRef, sends,
                   initPc>>

\* the cleanup of the effects when the component unmounts
Unmount ==
    /\ mountedRef
    /\ mountedRef' = FALSE
    /\ Commit(stopPolling(Hook))
    /\ hist' = [op |-> "other", stopped |-> TRUE]
    /\ UNCHANGED <<messages, msgError, participants, sessionUuid, connected,
                   isOnline, retryCount, lastUpdateRef, sends, initPc,
                   documentHidden>>

-----------------------------------------------------------------------------
(* The App component: connection monitor, initializeApp and sendMessage.   *)

SessionIds == {"s1", "s2"}

P1 == [uuid |-> "a", name |-> "Alice"]
P1b == [uuid |-> "a", name |-> "Al", role |-> "admin"]

\* the server holds the message of a send once the request was made
Srv(n) == IF n = 1 THEN Srv9 ELSE Spread(Srv9, [uuid |-> "srv-10"])
TempId(n) == IF n = 1 THEN "temp-1" ELSE "temp-2"

Fulfilled(value) == [status |-> "fulfilled", value |-> value]
Rejected == [status |-> "rejected"]

\* a server-info response that names another session than the stored one
SessionChanged(serverSessionUuid) ==
    sessionUuid # "" /\ sessionUuid # serverSessionUuid

\* checkConnection of useConnectionMonitor: getServerInfo resolved with a
\* response of session serverSessionUuid ...
CheckConnectionOk(serverSessionUuid) ==
    /\ mountedRef
    /\ isOnline' = TRUE
    /\ connected' = TRUE
    /\ LET changed == ~connected \/ ~isOnline
       IN  /\ Commit(pollingEffect(Hook, changed, TRUE, TRUE, retryCount))
           /\ hist' = [op |-> "serverInfo",
                       stopped |-> StoppedAfter(changed, TRUE, TRUE),
                       sessionChanged |-> SessionChanged(serverSessionUuid)]
    /\ BagCardinality(cycles') <= MaxInFlight
    /\ UNCHANGED <<messages, msgError, participants, sessionUuid, retryCount,
                   mountedRef, lastUpdateRef, sends, initPc, documentHidden>>

\* ... or rejected
CheckConnectionFails ==
    /\ mountedRef
    /\ isOnline' = FALSE
    /\ connected' = FALSE
    /\ LET changed == connected \/ isOnline
       IN  /\ Commit(pollingEffect(Hook, changed, FALSE, FALSE, retryCount))
           /\ hist' = [op |-> "other",
                       stopped |-> StoppedAfter(changed, FALSE, FALSE)]
    /\ UNCHANGED <<messages, msgError, participants, sessionUuid, retryCount,
                   mountedRef, lastUpdateRef, sends, initPc, documentHidden>>

\* initializeApp: getServerInfo resolved; the session store is set and the
\* hook renders with the new sessionUuid
InitServerInfo(serverSessionUuid) ==
    /\ initPc = "getServerInfo"
    /\ initPc' = "load"
    /\ sessionUuid' = serverSessionUuid
    /\ connected' = TRUE
    /\ LET changed == ~connected
           reset == /\ mountedRef
                    /\ serverSessionUuid # sessionUuid
                    /\ sessionEffectResets(serverSessionUuid)
           h1 == IF reset THEN [stopPolling(Hook) EXCEPT !.lastError = "null"]
                 ELSE Hook
           retry1 == IF reset THEN 0 ELSE retryCount
       IN  /\ messages' = IF reset THEN <<>> ELSE messages
           /\ msgError' = IF reset THEN "null" ELSE msgError
           /\ participants' = IF reset THEN clearParticipants ELSE participants
           /\ lastUpdateRef' = IF reset THEN Now ELSE lastUpdateRef
           /\ retryCount' = retry1
           /\ Commit(pollingEffect(h1, changed \/ retry1 # retryCount, TRUE,
                                   isOnline, retry1))
           /\ hist' = [op |-> "serverInfo",
                       stopped |-> IF reset /\ ~isOnline THEN TRUE
                                   ELSE StoppedAfter(changed, TRUE, isOnline),
                       sessionChanged |-> SessionChanged(serverSessionUuid)]
    /\ BagCardinality(cycles') <= MaxInFlight
    /\ UNCHANGED <<isOnline, mountedRef, sends, documentHidden>>

\* initializeApp: getServerInfo failed after its retries
InitServerInfoFails ==
    /\ initPc = "getServerInfo"
    /\ initPc' = "done"
    /\ connected' = FALSE
    /\ msgError' = "Failed to connect to server"
    /\ Commit(pollingEffect(Hook, connected, FALSE, isOnline, retryCount))
    /\ hist' = [op |-> "other",
                stopped |-> StoppedAfter(connected, FALSE, isOnline)]
    /\ UNCHANGED <<messages, participants, sessionUuid, isOnline, retryCount,
                   mountedRef, lastUpdateRef, sends, documentHidden>>

\* ConnectionErrorState onRetry={initializeApp}: initializeApp runs again
Retry ==
    /\ initPc = "done"
    /\ mountedRef
    /\ msgError # "null" /\ ~connected
    /\ initPc' = "getServerInfo"
    /\ msgError' = "null"
    /\ hist' = [op |-> "other", stopped |-> hist.stopped]
    /\ UNCHANGED <<messages, participants, sessionUuid, connected, isOnline,
                   hookVars, sends, documentHidden>>

\* initializeApp: the two initial loads settled
InitLoad(participantsData, messagesData) ==
    /\ initPc = "load"
    /\ initPc' = "done"
    /\ participants' = IF participantsData.status = "fulfilled"
                       THEN setParticipants(participantsData.value)
                       ELSE participants
    /\ messages' = IF messagesData.status = "fulfilled"
                   THEN setMessages(messagesData.value) ELSE messages
    /\ msgError' = IF messagesData.status = "fulfilled" THEN "null"
                   ELSE "Failed to load messages"
    /\ connected' = IF messagesData.status = "fulfilled" THEN connected ELSE FALSE
    /\ LET changed == connected' # connected
       IN  /\ Commit(pollingEffect(Hook, changed, connected', isOnline, retryCount))
           /\ hist' = [op |-> "other",
                       stopped |-> StoppedAfter(changed, connected', isOnline)]
    /\ UNCHANGED <<sessionUuid, isOnline, retryCount, mountedRef, lastUpdateRef,
                   sends, documentHidden>>
    /\ WithinBounds

\* sendMessage up to its await of apiService.sendMessage
SendStart ==
    /\ mountedRef
    /\ ~sends.sending
    /\ sends.n < MaxSends
    /\ Len(messages) < MaxMsgs
    /\ IF ~connected \/ ~isOnline
       THEN /\ msgError' = "Failed to send message"
            /\ UNCHANGED <<messages, sends>>
       ELSE /\ messages' = addMessage(messages,
                              Spread(OptimisticMessage(TempId(sends.n + 1)),
                                     [sentAt |-> Now, attachments |-> <<>>]))
            /\ sends' = [sends EXCEPT !.n = @ + 1, !.sending = TRUE]
            /\ UNCHANGED msgError
    /\ hist' = [op |-> "other", stopped |-> hist.stopped]
    /\ UNCHANGED <<participants, sessionUuid, connected, isOnline, hookVars,
                   initPc, documentHidden>>

\* sendMessage: apiService.sendMessage resolved with the server message ...
SendResolves ==
    /\ sends.sending
    /\ sends' = [sends EXCEPT !.sending = FALSE, !.confirmed = @ \cup {sends.n}]
    /\ messages' = addMessage(removeMessage(messages, TempId(sends.n)),
                              Srv(sends.n))
    /\ hist' = [op |-> "other", stopped |-> hist.stopped]
    /\ UNCHANGED <<msgError, participants, sessionUuid, connected, isOnline,
                   hookVars, initPc, documentHidden>>

\* ... or rejected
SendRejects ==
    /\ sends.sending
    /\ sends' = [sends EXCEPT !.sending = FALSE]
    /\ msgError' = "Failed to send message"
    /\ hist' = [op |-> "other", stopped |-> hist.stopped]
    /\ UNCHANGED <<messages, participants, sessionUuid, connected, isOnline,
                   hookVars, initPc, documentHidden>>

\* a message newer than the cursor
M3 == [uuid |-> "m3", text |-> "new", authorUuid |-> "a", createdAt |-> 3]

\* the arrays of at most one element of pool
Singles(pool) == {<<>>} \cup {<<x>> : x \in pool}

Settled(arrays) == {Rejected} \cup {Fulfilled(a) : a \in arrays}

\* The poll loop with forceSync, the visibility handler and the unmount,
\* after an initializeApp that loaded one participant and one message.
NextSync ==
    \/ InitServerInfo("s1")
    \/ InitLoad(Fulfilled(<<P1>>), Fulfilled(<<M1>>))
    \/ \E c \in BagToSet(cycles),
          mr \in Settled(Singles({M2, M3})),
          pv \in Singles({P1b}) :
          SyncComplete(c, mr, pv)
    \/ TimerFires
    \/ \E t \in BagToSet(orphanTimers) : OrphanTimerFires(t)
    \/ ForceSync
    \/ VisibilityHidden
    \/ VisibilityVisible
    \/ Unmount

SpecSync == InitAll /\ [][NextSync]_vars

\* initializeApp, the connection monitor and one poll loop, the server
\* restarting with a new session
NextSession ==
    \/ \E sid \in SessionIds : InitServerInfo(sid)
    \/ InitServerInfoFails
    \/ Retry
    \/ \E pd \in Settled(Singles({P1})), md \in Settled(Singles({M1})) :
          InitLoad(pd, md)
    \/ \E sid \in SessionIds : CheckConnectionOk(sid)
    \/ CheckConnectionFails
    \/ \E c \in BagToSet(cycles), mr \in Settled(Singles({M3})) :
          SyncComplete(c, mr, <<>>)
    \/ TimerFires

SpecSession == InitAll /\ [][NextSession]_vars

\* One poll loop and the sends of the user, the server answering the
\* message fetch with the messages it received from this client.
NextSend ==
    \/ InitServerInfo("s1")
    \/ \E c \in BagToSet(cycles),
          mr \in Settled(Arrays({Srv(n) : n \in 1..sends.n})) :
          SyncComplete(c, mr, <<>>)
    \/ TimerFires
    \/ SendStart
    \/ SendResolves
    \/ SendRejects

SpecSend == InitAll /\ [][NextSend]_vars

-----------------------------------------------------------------------------
(* Properties of the session, the poll loop and the send path.             *)

\* the messages stored under uuid
Stored(uuid) == {i \in 1..Len(messages) : messages[i].uuid = uuid}

\* C2: when a server-info response delivers a sessionUuid different from the
\* stored one, the message store and the participant store are both empty
\* once the response has been handled, before any further batch is applied.
C2_SessionChangeClearsStores ==
    (hist.op = "serverInfo" /\ hist.sessionChanged)
        => (messages = <<>> /\ participants = <<>>)

\* C3: no step makes the sync cursor an invalid value or decreases it.
C3_CursorNeverRegresses ==
    [][lastUpdateRef' # NaN /\ lastUpdateRef' >= lastUpdateRef]_vars

\* C6: once the server confirmed a send, and whatever the sync cycles
\* delivered before or after, the store holds exactly one message under the
\* server id of the send and none under its temp id.
C6_OneServerMessageNoTemp ==
    \A k \in sends.confirmed :
        /\ Cardinality(Stored(Srv(k).uuid)) = 1
        /\ Stored(TempId(k)) = {}

\* C7: once the send call of an optimistic message has resolved, the message
\* has left status 'sending': the server message with status 'sent' stands
\* for it after a success, and after an error it is still stored under its
\* temp id, with status 'failed'.
C7_ResolvedSendLeavesSending ==
    \A k \in 1..sends.n :
        (k < sends.n \/ ~sends.sending) =>
            IF k \in sends.confirmed
            THEN /\ Stored(TempId(k)) = {}
                 /\ \E i \in Stored(Srv(k).uuid) :
                       Has(messages[i], "status") /\ messages[i].status = "sent"
            ELSE \E i \in Stored(TempId(k)) : messages[i].status = "failed"

\* C8: at most one performSync cycle is in flight at any time.
C8_AtMostOneCycleInFlight == BagCardinality(cycles) <= 1

\* C9: after stopPolling(), and until polling is started again, the polling
\* loop neither schedules nor starts a poll cycle, also when a cycle that was
\* in flight at the stop completes afterwards.
C9_NoPollAfterStop ==
    hist.op \in {"syncComplete", "timerFires"} => ~hist.afterStop

\* C10: the results of a performSync cycle that arrive after the unmount, or
\* after a stopPolling() that found the cycle in flight and was not followed
\* by a restart, are not applied to the message store, the participant store
\* or the sync cursor.
C10_NoApplyAfterTeardown ==
    (hist.op = "syncComplete" /\ hist.teardown) => ~hist.applied

-----------------------------------------------------------------------------
(* The requests of apiService behind one performSync cycle.                *)

\* what one request meets on the network: a response with a JSON array, a
\* network error (fetch rejects), or the abort of fetchWithTimeout
Ok(data) == [kind |-> "ok", data |-> data]
NetworkError == [kind |-> "networkError"]
RequestTimeout == [kind |-> "timeout"]

NetOutcomes(arrays) == {NetworkError, RequestTimeout} \cup {Ok(a) : a \in arrays}

NetFailed(outcome) == outcome.kind # "ok"

\* !since
Falsy(since) == since = NaN \/ since = 0

getLatestMessages(outcome) ==
    IF outcome.kind = "ok" THEN Fulfilled(outcome.data) ELSE Rejected

\* with a falsy since the promise of getLatestMessages is returned, and its
\* rejection is not caught; otherwise every error is answered with []
getUpdatedMessages(since, outcome) ==
    IF Falsy(since) THEN getLatestMessages(outcome)
    ELSE IF outcome.kind = "ok" THEN Fulfilled(outcome.data)
    ELSE Fulfilled(<<>>)

getUpdatedParticipants(since, outcome) ==
    IF outcome.kind = "ok" THEN Fulfilled(outcome.data) ELSE Fulfilled(<<>>)

\* Promise.all in the place of Promise.allSettled: one rejection rejects all
allOrNothing(messagesPromise, participantsPromise) ==
    IF messagesPromise.status = "rejected" \/ participantsPromise.status = "rejected"
    THEN <<Rejected, Rejected>>
    ELSE <<messagesPromise, participantsPromise>>

\* Promise.allSettled([...]): each result by itself
allSettled(messagesPromise, participantsPromise) ==
    <<messagesPromise, participantsPromise>>

\* the two requests of cycle c settle, and performSync goes on
FetchesSettle(c, messagesOutcome, participantsOutcome) ==
    /\ BagIn(c, cycles)
    /\ LET results == allSettled(getUpdatedMessages(c.since, messagesOutcome),
                                 getUpdatedParticipants(c.since, participantsOutcome))
           participantsResult == results[2]
       IN  SyncSettle(c, results[1],
                      IF participantsResult.status = "fulfilled"
                      THEN participantsResult.value ELSE <<>>,
                      [known |-> TRUE, messages |-> messagesOutcome,
                       participants |-> participantsOutcome])

\* The poll loop over a network that fails: an initializeApp that loaded one
\* participant and one message, then cycles whose requests each succeed, fail
\* or time out, and the pull-to-refresh.
NextNet ==
    \/ InitServerInfo("s1")
    \/ InitLoad(Fulfilled(<<P1>>), Fulfilled(<<M1>>))
    \/ \E c \in BagToSet(cycles),
          mo \in NetOutcomes(Singles({M2, M3})),
          po \in NetOutcomes(Singles({P1b})) :
          FetchesSettle(c, mo, po)
    \/ TimerFires
    \/ ForceSync

SpecNet == InitAll /\ [][NextNet]_vars

\* the cycle that just completed, with what its requests met
KnownFetches == hist.op = "syncComplete" /\ hist.fetches.known

-----------------------------------------------------------------------------
(* Failed cycles: the retry counter, the backoff and the disconnect.       *)

\* The poll loop and forceSync, each cycle succeeding with nothing new or
\* failing: performSync throws on a batch with a null record, the one way
\* into its catch block, the requests of apiService never rejecting while
\* the cursor is a number.
NextRetry ==
    \/ InitServerInfo("s1")
    \/ \E c \in BagToSet(cycles),
          mr \in {Fulfilled(<<>>), Fulfilled(<<NullRec>>)} :
          SyncComplete(c, mr, <<>>)
    \/ TimerFires
    \/ \E t \in BagToSet(orphanTimers) : OrphanTimerFires(t)
    \/ ForceSync

SpecRetry == InitAll /\ [][NextRetry]_vars

\* C12: when more than maxRetries consecutive sync cycles have failed (the
\* retry counter, which counts them, is above maxRetries), connected is false
\* and the error of the message store is set.
C12_DisconnectedAboveMaxRetries ==
    retryCount > maxRetries => (~connected /\ msgError # "null")

\* the performSync cycles of forceSync in flight
ForceCycles(B) == {c \in BagToSet(B) : c.kind = "force"}

-----------------------------------------------------------------------------
(* addMessages called twice with one batch.                                *)

\* addMessages(newMessages) on any store contents; hist keeps the batch and
\* the messages list the call found
AddMessagesOnce(newMessages) ==
    /\ Len(addMessages(messages, newMessages)) <= MaxMsgs
    /\ messages' = addMessages(messages, newMessages)
    /\ hist' = [op |-> "addMessages", n |-> 1, batch |-> newMessages,
                before |-> messages]
    /\ UNCHANGED <<msgError, nonStoreVars>>

\* the same call once more
AddMessagesAgain ==
    /\ hist.op = "addMessages"
    /\ hist.n = 1
    /\ messages' = addMessages(messages, hist.batch)
    /\ hist' = [hist EXCEPT !.n = 2, !.before = messages]
    /\ UNCHANGED <<msgError, nonStoreVars>>

NextUpsert ==
    \/ \E msgs \in Arrays(StorePool) : SetMessages(msgs)
    \/ \E newMessages \in Arrays(StorePool) : AddMessagesOnce(newMessages)
    \/ AddMessagesAgain

SpecUpsert == InitAll /\ [][NextUpsert]_vars

\* the last Len(suffix) elements of list are suffix
EndsWith(list, suffix) ==
    /\ Len(suffix) <= Len(list)
    /\ \A k \in 1..Len(suffix) : list[Len(list) - Len(suffix) + k] = suffix[k]

\* C14: a second addMessages call with the same batch leaves the messages
\* list as the first call left it, and no addMessages call alters a message
\* that was stored before it: the stored messages stay, in their order, at
\* the end of the list.
C14_AddMessagesIdempotent ==
    hist.op = "addMessages" =>
        /\ EndsWith(messages, hist.before)
        /\ hist.n = 2 => messages = hist.before

\* the second call of a batch that holds a later version of a stored message
\* and a new message
C14_Witness ==
    /\ hist.op = "addMessages"
    /\ hist.n = 2
    /\ hist.batch = <<M1b, M2>>
    /\ Len(messages) = 2
    /\ \E k \in 1..Len(messages) : messages[k].uuid = "m1" /\ messages[k] # WithHasReactions(Spread(M1b, [participant |-> DefaultParticipant]))

-----------------------------------------------------------------------------
(* Reaction toggles on a message that starts without reactions.            *)

ReactUsers == {"you", "a", "b"}

\* a fetched message without reactions is stored; hist.odd is the set of
\* <<emoji, user>> toggled an odd number of times
ReactStart ==
    /\ hist.op = "init"
    /\ messages' = addMessages(messages, <<M2>>)
    /\ hist' = [op |-> "react", odd |-> {}]
    /\ UNCHANGED <<msgError, nonStoreVars>>

\* handleReact: addReaction(messageUuid, emoji, userId)
React(emoji, userId) ==
    /\ hist.op = "react"
    /\ messages' = addReaction(messages, M2.uuid, emoji, userId)
    /\ hist' = [hist EXCEPT !.odd = (@ \ {<<emoji, userId>>})
                                    \cup ({<<emoji, userId>>} \ @)]
    /\ UNCHANGED <<msgError, nonStoreVars>>

NextReact ==
    \/ ReactStart
    \/ \E emoji \in Emojis, userId \in ReactUsers : React(emoji, userId)

SpecReact == InitAll /\ [][NextReact]_vars

NoRepeats(list) == \A k, l \in 1..Len(list) : list[k] = list[l] => k = l

\* C15: after any sequence of addReaction calls on a message that started
\* with no reactions, its reactions list has at most one entry per emoji,
\* every entry lists at least one participant and none twice, every count is
\* the number of listed participants, and a user is listed under an emoji
\* exactly when that user toggled it an odd number of times.
C15_ReactionsWellFormed ==
    hist.op = "react" =>
        LET reactions == StoredReactions(M2.uuid) IN
        /\ \A k, l \in 1..Len(reactions) :
              reactions[k].emoji = reactions[l].emoji => k = l
        /\ \A k \in 1..Len(reactions) :
              /\ reactions[k].participants # <<>>
              /\ NoRepeats(reactions[k].participants)
              /\ reactions[k].count = Len(reactions[k].participants)
        /\ \A emoji \in Emojis, userId \in ReactUsers :
              <<emoji, userId>> \in hist.odd <=>
                 \E k \in 1..Len(reactions) :
                    /\ reactions[k].emoji = emoji
                    /\ Includes(reactions[k].participants, userId)

\* two entries, one with two participants, after a user took a reaction back
C15_Witness ==
    /\ hist.op = "react"
    /\ hist.odd = {<<Heart, "a">>, <<Like, "a">>, <<Like, "you">>}
    /\ Len(StoredReactions(M2.uuid)) = 2
    /\ StoredReactions(M2.uuid)[1].emoji = Heart

-----------------------------------------------------------------------------
(* The mutators of the two stores called with malformed arguments.  The    *)
(* participant store is the one of src/src/stores/participantStore.js; a   *)
(* call is modelled by the participants it leaves and whether it threw.    *)

\* a record without uuid
NoUuid == [text |-> "x"]

\* if (!Array.isArray(x)) return: the call with a batch that is no array
nonArrayCall(current) == current

Returned(parts) == [threw |-> FALSE, participants |-> parts]
Threw(parts) == [threw |-> TRUE, participants |-> parts]

\* participantMap[participant.uuid]: the key of a participant without uuid
KeyOf(participant) ==
    IF Has(participant, "uuid") THEN participant.uuid ELSE "undefined"

\* participantStore.js setParticipants(null): null.forEach throws
participantStore_setParticipantsNonArray(parts) == Threw(parts)

\* participantStore.js addParticipant(participant)
participantStore_addParticipant(parts, participant) ==
    IF ~IsObject(participant) THEN Threw(parts)
    ELSE Returned([u \in DOMAIN parts \cup {KeyOf(participant)} |->
                     IF u = KeyOf(participant) THEN participant ELSE parts[u]])

\* participantStore.js updateParticipant(uuid, updates), uuid undefined
participantStore_updateParticipantNoUuid(parts, updates) ==
    IF "undefined" \in DOMAIN parts
    THEN Returned([parts EXCEPT !["undefined"] = Spread(@, updates)])
    ELSE Returned(parts)

MessageCalls ==
    {"setMessages(null)", "addMessages(null)", "addMessage(null)",
     "addMessage({text})", "updateMessage('', updates)",
     "updateMessage(uuid, null)", "removeMessage('')",
     "addReaction('', emoji)", "addReaction(uuid, '')"}

ParticipantCalls ==
    {"setParticipants(null)", "addParticipant(null)", "addParticipant({text})",
     "updateParticipant(undefined, updates)"}

MalformedMessageCall(call) ==
    /\ messages' =
         CASE call = "setMessages(null)" -> nonArrayCall(messages)
           [] call = "addMessages(null)" -> nonArrayCall(messages)
           [] call = "addMessage(null)" -> addMessage(messages, NullRec)
           [] call = "addMessage({text})" -> addMessage(messages, NoUuid)
           [] call = "updateMessage('', updates)" ->
                 updateMessage(messages, "", [status |-> "failed"])
           [] call = "updateMessage(uuid, null)" ->
                 updateMessage(messages, "m1", NullRec)
           [] call = "removeMessage('')" -> removeMessage(messages, "")
           [] call = "addReaction('', emoji)" ->
                 addReaction(messages, "", Like, "you")
           [] call = "addReaction(uuid, '')" ->
                 addReaction(messages, "m1", "", "you")
    /\ hist' = [op |-> "malformed", call |-> call, threw |-> FALSE,
                before |-> <<messages, participants>>]
    /\ UNCHANGED <<msgError, nonStoreVars>>

MalformedParticipantCall(call) ==
    LET result ==
          CASE call = "setParticipants(null)" ->
                  participantStore_setParticipantsNonArray(participants)
            [] call = "addParticipant(null)" ->
                  participantStore_addParticipant(participants, NullRec)
            [] call = "addParticipant({text})" ->
                  participantStore_addParticipant(participants, NoUuid)
            [] call = "updateParticipant(undefined, updates)" ->
                  participantStore_updateParticipantNoUuid(participants,
                                                           [name |-> "Al"])
    IN  /\ participants' = result.participants
        /\ hist' = [op |-> "malformed", call |-> call, threw |-> result.threw,
                    before |-> <<messages, participants>>]
        /\ UNCHANGED <<messages, msgError, sessionUuid, connected, isOnline,
                       hookVars, sends, initPc, documentHidden>>

\* a well-formed participant is added
AddParticipant(participant) ==
    /\ participants' = participantStore_addParticipant(participants,
                                                       participant).participants
    /\ hist' = [op |-> "addParticipant"]
    /\ UNCHANGED <<messages, msgError, sessionUuid, connected, isOnline,
                   hookVars, sends, initPc, documentHidden>>

NextGuard ==
    \/ \E msgs \in Arrays(StorePool) : SetMessages(msgs)
    \/ \E participant \in {P1, P1b} : AddParticipant(participant)
    \/ \E call \in MessageCalls : MalformedMessageCall(call)
    \/ \E call \in ParticipantCalls : MalformedParticipantCall(call)

SpecGuard == InitAll /\ [][NextGuard]_vars

\* C16: a mutator of the message store or the participant store called with
\* a missing or malformed required argument returns without throwing and
\* leaves the messages and the participants as they were.
C16_MalformedCallIsNoOp ==
    hist.op = "malformed" =>
        /\ ~hist.threw
        /\ messages = hist.before[1]
        /\ participants = hist.before[2]

-----------------------------------------------------------------------------
(* Fetched batches that hold a malformed record.                           *)

WellFormed(record) == IsObject(record) /\ Truthy(record, "uuid")

\* The poll loop after an initializeApp that loaded one participant and one
\* message, both requests of every cycle answered, the batches holding null
\* and a record without uuid among the well-formed records.
NextBatch ==
    \/ InitServerInfo("s1")
    \/ InitLoad(Fulfilled(<<P1>>), Fulfilled(<<M1>>))
    \/ \E c \in BagToSet(cycles),
          fetchedMessages \in Arrays({M3, NullRec, NoUuid}),
          fetchedParticipants \in Singles({P1b, NullRec}) :
          FetchesSettle(c, Ok(fetchedMessages), Ok(fetchedParticipants))
    \/ TimerFires

SpecBatch == InitAll /\ [][NextBatch]_vars

\* C17: a malformed record in a fetched batch does not abort the batch: the
\* cycle does not fail, every well-formed message of the batch is in the
\* message store afterwards, and every well-formed update of a stored
\* participant is in the participant store.
C17_BadRecordDoesNotAbortBatch ==
    (KnownFetches /\ ~NetFailed(hist.fetches.messages)
                  /\ ~NetFailed(hist.fetches.participants)) =>
        LET fetchedMessages == hist.fetches.messages.data
            fetchedParticipants == hist.fetches.participants.data
        IN  /\ ~hist.failed
            /\ \A k \in 1..Len(fetchedMessages) :
                  WellFormed(fetchedMessages[k]) =>
                     fetchedMessages[k].uuid \in Uuids(messages)
            /\ \A k \in 1..Len(fetchedParticipants) :
                  (/\ WellFormed(fetchedParticipants[k])
                   /\ fetchedParticipants[k].uuid \in DOMAIN participants) =>
                     \A f \in DOMAIN fetchedParticipants[k] :
                        participants[fetchedParticipants[k].uuid][f]
                           = fetchedParticipants[k][f]

-----------------------------------------------------------------------------
(* updateMessage and the author of a message.                              *)

\* updates that touch the author: an empty authorUuid, a participant without
\* name, a participant with one, and updates that do not name the author
AuthorUpdates ==
    {[authorUuid |-> ""],
     [participant |-> [uuid |-> "a"]],
     [participant |-> [uuid |-> "b", name |-> "Bob"]],
     [authorUuid |-> "", participant |-> [uuid |-> ""]],
     [status |-> "failed"],
     [text |-> "edited"]}

NextAuthor ==
    \/ \E msgs \in Singles({M1, OptimisticMessage("temp-1")}) : SetMessages(msgs)
    \/ \E uuid \in StoreUuids, updates \in AuthorUpdates :
          UpdateMessage(uuid, updates)

SpecAuthor == InitAll /\ [][NextAuthor]_vars

\* C18: an updateMessage call on a message with a set author leaves its
\* authorUuid as it was, and its participant too unless the updates carry a
\* participant with a name.
C18_AuthorIdentityKept ==
    [][(hist'.op = "updateMessage" /\ hist'.found) =>
          \A k \in 1..Len(messages) :
             Truthy(messages[k], "authorUuid") =>
                /\ Has(messages'[k], "authorUuid")
                /\ messages'[k].authorUuid = messages[k].authorUuid
                /\ \/ messages'[k].participant = messages[k].participant
                   \/ /\ Has(hist'.updates, "participant")
                      /\ Truthy(hist'.updates.participant, "name")]_vars

-----------------------------------------------------------------------------
(* getParticipantName.                                                     *)

\* participant?.name || 'Unknown User'
NameOrUnknown(parts, uuid) ==
    IF uuid \in DOMAIN parts /\ Truthy(parts[uuid], "name")
    THEN parts[uuid].name ELSE "Unknown User"

\* a getParticipantName that looks the participant up before anything else
getParticipantNameLookupFirst(parts, uuid) == NameOrUnknown(parts, uuid)

getParticipantName(parts, uuid) ==
    IF uuid = "" THEN "Unknown User"
    ELSE IF uuid = "you" THEN "You"
    ELSE NameOrUnknown(parts, uuid)

\* participants under the local-user sentinel, with an empty name, without
\* name, and with one
NamePool ==
    {P1, P1b, [uuid |-> "you", name |-> "Me"], [uuid |-> "n", name |-> ""],
     [uuid |-> "x"], [uuid |-> "b", name |-> "Bob"], NullRec}

NameUuids == {"you", "a", "b", "n", "x", "zz", ""}

SetParticipants(participantData) ==
    /\ participants' = setParticipants(participantData)
    /\ hist' = [op |-> "setParticipants"]
    /\ UNCHANGED <<messages, msgError, sessionUuid, connected, isOnline,
                   hookVars, sends, initPc, documentHidden>>

\* the getter reads the store and nothing else
GetParticipantName(uuid) ==
    /\ hist' = [op |-> "getParticipantName", uuid |-> uuid,
                result |-> getParticipantName(participants, uuid),
                before |-> participants]
    /\ UNCHANGED <<messages, msgError, nonStoreVars>>

NextName ==
    \/ \E participantData \in Arrays(NamePool) : SetParticipants(participantData)
    \/ \E uuid \in NameUuids : GetParticipantName(uuid)

SpecName == InitAll /\ [][NextName]_vars

\* C19: getParticipantName(uuid) returns 'You' for the sentinel 'you', stored
\* or not, the name of the stored participant when it has a non-empty one,
\* 'Unknown User' otherwise, and leaves the participant store unchanged.
C19_ParticipantName ==
    hist.op = "getParticipantName" =>
        /\ participants = hist.before
        /\ hist.result =
              IF hist.uuid = "you" THEN "You"
              ELSE IF \E u \in DOMAIN participants :
                         /\ u = hist.uuid
                         /\ Has(participants[u], "name")
                         /\ participants[u].name # ""
                   THEN participants[hist.uuid].name
                   ELSE "Unknown User"

\* the sentinel asked for while a participant is stored under it
C19_Witness ==
    /\ hist.op = "getParticipantName"
    /\ hist.uuid = "you"
    /\ "you" \in DOMAIN participants
    /\ participants["you"].name = "Me"
    /\ hist.result = "You"

-----------------------------------------------------------------------------
(* Network errors and timeouts in a cycle.                                 *)

\* C20: a cycle whose two requests fail with a network error or a timeout is
\* a failed cycle: the retry counter goes up by one, and the poll loop does
\* not schedule its next attempt at the normal poll interval.
C20_NetworkFailureIsFailedCycle ==
    [][(/\ hist'.op = "syncComplete"
        /\ hist'.fetches.known
        /\ NetFailed(hist'.fetches.messages)
        /\ NetFailed(hist'.fetches.participants)
        /\ mountedRef) =>
          /\ hist'.failed
          /\ retryCount' = retryCount + 1
          /\ ~(/\ hist'.kind = "poll"
               /\ pollIntervalRef'.current = "armed"
               /\ pollIntervalRef'.delay = pollInterval)]_vars

-----------------------------------------------------------------------------
(* Backoff of the polling loop.                                            *)

\* C21: after the k-th consecutive failed cycle of the polling loop (k from
\* 0, which is the retry counter before the failure), with k below
\* maxRetries, the next attempt waits on a timer of delay
\* pollInterval * backoffMultiplier^k; at or beyond maxRetries no attempt is
\* scheduled or started.
C21_BackoffDelayGrows ==
    [][(/\ hist'.op = "syncComplete"
        /\ hist'.kind = "poll"
        /\ hist'.failed
        /\ mountedRef) =>
          IF retryCount < maxRetries
          THEN /\ pollIntervalRef'.current = "armed"
               /\ pollIntervalRef'.delay =
                      pollInterval * Pow(backoffMultiplier, retryCount)
               /\ BagCardinality(cycles') < BagCardinality(cycles)
          ELSE /\ pollIntervalRef'.current = "null"
               /\ BagCardinality(cycles') < BagCardinality(cycles)]_vars

-----------------------------------------------------------------------------
(* What the App shows of a failed cycle.                                   *)

\* lastError as the hook returns it to the render that follows a settled
\* cycle: the catch of performSync has set it, and the effects of that render
\* (which may start the next cycle and clear it) have not run yet
syncError ==
    IF hist.op = "syncComplete" /\ hist.failed /\ mountedRef
    THEN "sync failed"
    ELSE lastError

\* C22: while the number of consecutive failed cycles is at or below
\* maxRetries, a settled cycle leaves nothing for the error banner to show:
\* the hook's lastError and the message store's error are both empty.
C22_ErrorHiddenBelowCeiling ==
    (hist.op = "syncComplete" /\ retryCount <= maxRetries) =>
        (syncError = "null" /\ msgError = "null")

-----------------------------------------------------------------------------
(* The list position of a reconciled message.                              *)

\* C23: a reconcile of a stored temporary message puts the server message at
\* the list position the temporary message had, so the messages inserted at
\* the head since the optimistic insert stay above it.
C23_ReconcileKeepsPosition ==
    [][(/\ hist'.op = "reconcile"
        /\ FindIndex(messages, hist'.tempId) # 0
        /\ FindIndex(messages, Srv9.uuid) = 0) =>
          FindIndex(messages', Srv9.uuid) = FindIndex(messages, hist'.tempId)]_vars

-----------------------------------------------------------------------------
(* Participant deltas.                                                     *)

\* a participant the initial load did not deliver
P2 == [uuid |-> "b", name |-> "Bob"]

\* The poll loop after an initializeApp that loaded one participant and one
\* message, every request answered, the participant deltas holding an update
\* of the stored participant and a participant that joined since.
NextDelta ==
    \/ InitServerInfo("s1")
    \/ InitLoad(Fulfilled(<<P1>>), Fulfilled(<<M1>>))
    \/ \E c \in BagToSet(cycles),
          fetchedMessages \in Singles({M3}),
          fetchedParticipants \in Arrays({P1b, P2}) :
          FetchesSettle(c, Ok(fetchedMessages), Ok(fetchedParticipants))
    \/ TimerFires
    \/ ForceSync

SpecDelta == InitAll /\ [][NextDelta]_vars

\* C24: after a cycle whose participant request succeeded, every record of
\* the delta that has a uuid is in the participant store under that uuid with
\* the fields of the delta, whether or not the uuid was stored before.
C24_DeltaParticipantsStored ==
    (KnownFetches /\ ~NetFailed(hist.fetches.participants) /\ mountedRef) =>
        LET delta == hist.fetches.participants.data
        IN  \A i \in 1..Len(delta) :
                WellFormed(delta[i]) =>
                    /\ delta[i].uuid \in DOMAIN participants
                    /\ \A f \in DOMAIN delta[i] :
                          /\ Has(participants[delta[i].uuid], f)
                          /\ participants[delta[i].uuid][f] = delta[i][f]

-----------------------------------------------------------------------------
(* The fields of a stored message.                                         *)

\* C25: whatever path ingested it (setMessages, addMessage, addMessages),
\* every stored message has a text, a createdAt, a status and a reactions
\* list, also when the raw record lacked them.
C25_StoredMessagesHaveDefaults ==
    \A i \in 1..Len(messages) :
        /\ Has(messages[i], "text")
        /\ Has(messages[i], "createdAt")
        /\ Has(messages[i], "status")
        /\ Has(messages[i], "reactions")

-----------------------------------------------------------------------------
(* A tap on a reaction: handleReact of the App.                            *)

HttpError(status) == [kind |-> "http", status |-> status]

\* what the request of apiService.addReaction can meet: a JSON object or
\* null in a 2xx answer, 404, another HTTP error, no network, a timeout
ReactOutcomes ==
    {Ok([ok |-> TRUE]), Ok(NullRec), HttpError(404), HttpError(500),
     NetworkError, RequestTimeout}

\* apiService.addReaction(messageId, emoji) as a settled promise
apiService_addReaction(outcome) ==
    IF outcome.kind = "ok" THEN Fulfilled(outcome.data)
    ELSE IF outcome.kind = "http" /\ outcome.status = 404
         THEN Fulfilled([success |-> FALSE, reason |-> "endpoint_not_implemented"])
         ELSE Rejected

\* handleReact(messageUuid, emoji): the messages list it leaves
handleReact(msgs, messageUuid, emoji, outcome) ==
    LET result == apiService_addReaction(outcome)
        local == addReaction(msgs, messageUuid, emoji, "you")
    IN  IF result.status = "rejected" THEN local
        ELSE IF ~IsObject(result.value) THEN local
        ELSE IF /\ Has(result.value, "success") /\ result.value.success = FALSE
                /\ Has(result.value, "reason")
                /\ result.value.reason = "endpoint_not_implemented"
             THEN local
             ELSE msgs

\* one tap, from the call of handleReact to the end of its promise
HandleReact(messageUuid, emoji, outcome) ==
    /\ messages' = handleReact(messages, messageUuid, emoji, outcome)
    /\ hist' = [op |-> "handleReact", uuid |-> messageUuid, emoji |-> emoji,
                outcome |-> outcome, before |-> messages]
    /\ UNCHANGED <<msgError, nonStoreVars>>

NextTap ==
    \/ \E msgs \in Singles({M1, M2}) : SetMessages(msgs)
    \/ \E uuid \in StoreUuids, emoji \in Emojis, outcome \in ReactOutcomes :
          HandleReact(uuid, emoji, outcome)

SpecTap == InitAll /\ [][NextTap]_vars

\* C26: for every outcome of the reaction request (success, 404, another
\* error) one tap changes the stored reactions by exactly one toggle of the
\* user's reaction, and leaves no error in the store.
C26_OneTapOneToggle ==
    hist.op = "handleReact" =>
        /\ messages = addReaction(hist.before, hist.uuid, hist.emoji, "you")
        /\ msgError = "null"

-----------------------------------------------------------------------------
(* The reaction groups a message bubble shows.                             *)

ThumbsUp == "thumbsup"

\* the loop body of reactionGroups: the Map after one more reaction; a Map
\* keeps its keys in insertion order, so it is a sequence of groups here
reactionMapSet(groups, reaction) ==
    LET emoji == IF EmojiOf(reaction) # "" THEN EmojiOf(reaction) ELSE ThumbsUp
        count == IF Has(reaction, "count") /\ reaction.count # 0
                 THEN reaction.count ELSE 1
        ofReaction == ParticipantsOf(reaction)
        at == {i \in 1..Len(groups) : groups[i].emoji = emoji}
    IN  IF at # {}
        THEN LET i == CHOOSE i \in at : TRUE
             IN  [groups EXCEPT ![i] =
                    [emoji |-> emoji,
                     count |-> groups[i].count + count,
                     participants |-> groups[i].participants \o ofReaction]]
        ELSE Append(groups, [emoji |-> emoji, count |-> count,
                             participants |-> ofReaction])

RECURSIVE reactionMap(_, _)
reactionMap(groups, reactions) ==
    IF reactions = <<>> THEN groups
    ELSE reactionMap(reactionMapSet(groups, Head(reactions)), Tail(reactions))

\* reactionGroups of MessageBubble for a message whose reactions is an array
\* (the bubble of the App computes isOwnReaction in each group besides)
reactionGroups(reactions) ==
    LET Positive(r) == r.count > 0
    IN  SelectSeq(reactionMap(<<>>, reactions), Positive)

\* reactions entries as a server record can carry them
ReactionPool ==
    {[emoji |-> Like, count |-> 1, participants |-> <<"you">>],
     [emoji |-> Like, count |-> 2, participants |-> <<"a", "b">>],
     [emoji |-> Heart, count |-> 1, participants |-> <<"a">>],
     [type |-> Heart, count |-> 1, participants |-> <<"b">>],
     [emoji |-> Like, participants |-> <<"a">>],
     [emoji |-> Heart, count |-> 2],
     [emoji |-> Like, count |-> 0, participants |-> <<>>]}

\* the render of the bubble of the stored message
RenderBubble ==
    /\ messages # <<>>
    /\ hist' = [op |-> "renderBubble", reactions |-> messages[1].reactions,
                reactionGroups |-> reactionGroups(messages[1].reactions)]
    /\ UNCHANGED <<messages, msgError, nonStoreVars>>

NextBubble ==
    \/ \E reactions \in Arrays(ReactionPool) :
          SetMessages(<<Spread(M2, [reactions |-> reactions])>>)
    \/ RenderBubble

SpecBubble == InitAll /\ [][NextBubble]_vars

\* C27: the reaction groups of a reactions list have one group per emoji of
\* the list; a group's participants are the concatenation and its count the
\* sum of the counts of the entries of its emoji; no group has count zero or
\* no participant; and evaluating again gives the same groups.
C27_ReactionGroups ==
    hist.op = "renderBubble" =>
        LET reactions == hist.reactions
            groups == hist.reactionGroups
            Key(r) == IF EmojiOf(r) # "" THEN EmojiOf(r) ELSE ThumbsUp
            Entries(e) == SelectSeq(reactions, LAMBDA r : Key(r) = e)
            RECURSIVE Sum(_)
            Sum(s) == IF s = <<>> THEN 0
                      ELSE (IF Has(Head(s), "count") THEN Head(s).count ELSE 1)
                           + Sum(Tail(s))
            RECURSIVE Concat(_)
            Concat(s) == IF s = <<>> THEN <<>>
                         ELSE ParticipantsOf(Head(s)) \o Concat(Tail(s))
        IN  /\ \A i, j \in 1..Len(groups) :
                  groups[i].emoji = groups[j].emoji => i = j
            /\ \A i \in 1..Len(groups) :
                  /\ Entries(groups[i].emoji) # <<>>
                  /\ groups[i].count = Sum(Entries(groups[i].emoji))
                  /\ groups[i].participants = Concat(Entries(groups[i].emoji))
                  /\ groups[i].count # 0
                  /\ groups[i].participants # <<>>
            /\ \A k \in 1..Len(reactions) :
                  Sum(Entries(Key(reactions[k]))) > 0 =>
                      \E i \in 1..Len(groups) : groups[i].emoji = Key(reactions[k])
            /\ reactionGroups(reactions) = groups

-----------------------------------------------------------------------------
(* retryRequest: the retry loop around one request.                        *)

\* the outcomes of one call of requestFn: its data, an error that carries an
\* HTTP status, or an error without one
RequestOutcomes ==
    {Ok([ok |-> TRUE]), HttpError(400), HttpError(404), HttpError(500),
     HttpError(503), NetworkError, RequestTimeout}

\* error.status >= 400 && error.status < 500
IsClientError(outcome) ==
    outcome.kind = "http" /\ outcome.status >= 400 /\ outcome.status < 500

Pending == [status |-> "pending"]
Thrown(error) == [status |-> "rejected", reason |-> error]

\* a retry loop that goes on after a 4xx answer as after any other error
apiService_retryRequestAll(loop, outcome) ==
    LET called == [loop EXCEPT !.calls = Append(@, outcome)]
    IN  IF outcome.kind = "ok"
        THEN [called EXCEPT !.result = Fulfilled(outcome.data)]
        ELSE IF loop.i < loop.maxRetries - 1
             THEN [called EXCEPT !.i = @ + 1]
             ELSE [called EXCEPT !.i = @ + 1, !.result = Thrown(outcome)]

\* one iteration of the loop of apiService.retryRequest, requestFn having
\* settled with outcome; after the last iteration the loop is left and
\* lastError is thrown
apiService_retryRequest(loop, outcome) ==
    LET called == [loop EXCEPT !.calls = Append(@, outcome)]
    IN  IF outcome.kind = "ok"
        THEN [called EXCEPT !.result = Fulfilled(outcome.data)]
        ELSE IF IsClientError(outcome)
             THEN [called EXCEPT !.result = Thrown(outcome)]
             ELSE IF loop.i < loop.maxRetries - 1
                  THEN [called EXCEPT !.i = @ + 1]
                  ELSE [called EXCEPT !.i = @ + 1, !.result = Thrown(outcome)]

\* the same iteration in the retryRequest helper of the axios client
retryRequest(loop, outcome) ==
    LET called == [loop EXCEPT !.calls = Append(@, outcome)]
    IN  IF outcome.kind = "ok"
        THEN [called EXCEPT !.result = Fulfilled(outcome.data)]
        ELSE IF loop.i = loop.maxRetries - 1
             THEN [called EXCEPT !.result = Thrown(outcome)]
             ELSE IF IsClientError(outcome)
                  THEN [called EXCEPT !.result = Thrown(outcome)]
                  ELSE [called EXCEPT !.i = @ + 1]

\* the values of maxRetries: 3 and 2 as initializeApp passes them (3 is the
\* default too), and 1, the loop of a single iteration
RetryLimits == {1, 2, 3}

\* retryRequest(requestFn, maxRetries) is called; hist holds the loop
RetryRequestCalled(impl, limit) ==
    /\ hist' = [op |-> "retryRequest", impl |-> impl, maxRetries |-> limit,
                i |-> 0, calls |-> <<>>, result |-> Pending]
    /\ UNCHANGED <<messages, msgError, nonStoreVars>>

\* requestFn settles and the iteration runs to its await, return or throw
RequestSettles(outcome) ==
    /\ hist.op = "retryRequest"
    /\ hist.result = Pending
    /\ hist.i < hist.maxRetries
    /\ hist' = IF hist.impl = "apiService"
               THEN apiService_retryRequest(hist, outcome)
               ELSE retryRequest(hist, outcome)
    /\ UNCHANGED <<messages, msgError, nonStoreVars>>

NextRetryRequest ==
    \/ \E impl \in {"apiService", "apiClient"}, limit \in RetryLimits :
          RetryRequestCalled(impl, limit)
    \/ \E outcome \in RequestOutcomes : RequestSettles(outcome)

SpecRetryRequest == InitAll /\ [][NextRetryRequest]_vars

\* C28: retryRequest calls requestFn at most maxRetries times and has settled
\* once it has called it maxRetries times; it returns the data of the first
\* call that succeeded and calls no more; it throws the error of a call that
\* failed with a 4xx status at once; it goes on after a 5xx or a network
\* failure; and when every call failed it throws the error of the last one.
C28_RetryRequest ==
    hist.op = "retryRequest" =>
        LET calls == hist.calls
            n == Len(calls)
            Retried(k) == calls[k].kind # "ok" /\ ~IsClientError(calls[k])
        IN  /\ n <= hist.maxRetries
            /\ \A k \in 1..(n - 1) : Retried(k)
            /\ hist.result = Pending =>
                  /\ n < hist.maxRetries
                  /\ \A k \in 1..n : Retried(k)
            /\ hist.result.status = "fulfilled" =>
                  /\ n >= 1
                  /\ calls[n].kind = "ok"
                  /\ hist.result.value = calls[n].data
            /\ hist.result.status = "rejected" =>
                  /\ n >= 1
                  /\ calls[n].kind # "ok"
                  /\ hist.result.reason = calls[n]
                  /\ IsClientError(calls[n]) \/ n = hist.maxRetries

\* a call that failed with a 503, was tried again and returned the data of
\* the second call
C28_Witness ==
    /\ hist.op = "retryRequest"
    /\ hist.maxRetries = 3
    /\ Len(hist.calls) = 2
    /\ hist.calls[1] = HttpError(503)
    /\ hist.result.status = "fulfilled"

-----------------------------------------------------------------------------
(* The chat screen: its refresh, its pagination and its send path call     *)
(* setMessages and updateMessage with lists and updates they build.        *)

\* the arrays a request for messages resolves to: no uuid twice in one answer
ServerLists ==
    {a \in Arrays({M1, M2, M3}) :
        \A i, j \in 1..Len(a) : a[i].uuid = a[j].uuid => i = j}

\* handleRefresh (and initializeApp): the store is set to the latest messages
HandleRefresh(messagesData) ==
    /\ messages' = setMessages(messagesData)
    /\ msgError' = "null"
    /\ hist' = [op |-> "handleRefresh"]
    /\ UNCHANGED nonStoreVars

\* handleLoadMore: getMessagesBefore is asked with the uuid of the oldest
\* message where it expects a timestamp, so its answer is any list of
\* messages; the answer is appended to the list the handler read
HandleLoadMore(olderMessages) ==
    /\ messages # <<>>
    /\ Len(olderMessages) > 0
    /\ Len(messages) + Len(olderMessages) <= MaxMsgs
    /\ messages' = setMessages(messages \o olderMessages)
    /\ msgError' = "null"
    /\ hist' = [op |-> "handleLoadMore"]
    /\ UNCHANGED nonStoreVars

\* handleSendMessage up to its await of apiService.sendMessage
HandleSendMessage ==
    /\ ~sends.sending
    /\ sends.n < MaxSends
    /\ Len(messages) < MaxMsgs
    /\ messages' = addMessage(messages,
                      Spread(OptimisticMessage(TempId(sends.n + 1)),
                             [updatedAt |-> Now]))
    /\ sends' = [sends EXCEPT !.n = @ + 1, !.sending = TRUE]
    /\ hist' = [op |-> "handleSendMessage"]
    /\ UNCHANGED <<msgError, participants, sessionUuid, connected, isOnline,
                   hookVars, initPc, documentHidden>>

\* handleSendMessage: the request resolved with the server message ...
HandleSendResolves ==
    /\ sends.sending
    /\ sends' = [sends EXCEPT !.sending = FALSE, !.confirmed = @ \cup {sends.n}]
    /\ messages' = updateMessage(messages, TempId(sends.n),
                                 Spread(Srv(sends.n), [status |-> "sent"]))
    /\ hist' = [op |-> "handleSendResolves"]
    /\ UNCHANGED <<msgError, participants, sessionUuid, connected, isOnline,
                   hookVars, initPc, documentHidden>>

\* ... or rejected
HandleSendRejects ==
    /\ sends.sending
    /\ sends' = [sends EXCEPT !.sending = FALSE]
    /\ messages' = updateMessage(messages, TempId(sends.n), [status |-> "failed"])
    /\ hist' = [op |-> "handleSendRejects"]
    /\ UNCHANGED <<msgError, participants, sessionUuid, connected, isOnline,
                   hookVars, initPc, documentHidden>>

NextScreen ==
    \/ \E messagesData \in ServerLists : HandleRefresh(messagesData)
    \/ \E olderMessages \in ServerLists : HandleLoadMore(olderMessages)
    \/ HandleSendMessage
    \/ HandleSendResolves
    \/ HandleSendRejects

SpecScreen == InitAll /\ [][NextScreen]_vars

\* C29: under every mutator of the message store, setMessages with the lists
\* the chat screen builds and updateMessage with updates that carry a uuid
\* included, no two stored messages have the same uuid.
C29_UuidsDistinctUnderAllMutators ==
    \A i \in 1..Len(messages) :
        \A j \in (i + 1)..Len(messages) : messages[i].uuid # messages[j].uuid

-----------------------------------------------------------------------------
(* The participant table under all of its mutators.                        *)

\* setParticipants with an object: participantMap = {...participantData}
setParticipantsObject(participantData) == participantData

addParticipant(parts, participant) ==
    IF ~IsObject(participant) \/ ~Truthy(participant, "uuid") THEN parts
    ELSE [u \in DOMAIN parts \cup {participant.uuid} |->
            IF u = participant.uuid THEN participant ELSE parts[u]]

removeParticipant(parts, uuid) ==
    IF uuid = "" \/ uuid \notin DOMAIN parts THEN parts
    ELSE [u \in DOMAIN parts \ {uuid} |-> parts[u]]

\* objects handed to setParticipants: a table as the mock initializeApp
\* builds it, and a table with a participant under another key
ParticipantObjects ==
    {("you" :> [uuid |-> "you", name |-> "You"]) @@ ("a" :> P1),
     ("a" :> P2)}

\* one call of a mutator of the participant store, leaving parts
ParticipantStoreCall(op, parts) ==
    /\ participants' = parts
    /\ hist' = [op |-> op]
    /\ UNCHANGED <<messages, msgError, sessionUuid, connected, isOnline,
                   hookVars, sends, initPc, documentHidden>>

NextTable ==
    \/ \E participantData \in Arrays({P1, P2, NullRec, NoUuid}) :
          ParticipantStoreCall("setParticipants", setParticipants(participantData))
    \/ \E participantData \in ParticipantObjects :
          ParticipantStoreCall("setParticipants",
                               setParticipantsObject(participantData))
    \/ \E participant \in {P1, P1b, P2, NullRec, NoUuid} :
          ParticipantStoreCall("addParticipant",
                               addParticipant(participants, participant))
    \/ \E uuid \in {"a", "b", ""}, updates \in {[name |-> "Al"], P1b, P2, NullRec} :
          ParticipantStoreCall("updateParticipant",
                               updateParticipant(participants, uuid, updates))
    \/ \E uuid \in {"a", "b", "you", ""} :
          ParticipantStoreCall("removeParticipant",
                               removeParticipant(participants, uuid))

SpecTable == InitAll /\ [][NextTable]_vars

\* C30: every key of the participants table maps to a participant that is
\* not null and whose uuid is that key, after any sequence of setParticipants
\* (array or object), addParticipant, updateParticipant and removeParticipant.
C30_TableKeyedByUuid ==
    \A key \in DOMAIN participants :
        /\ IsObject(participants[key])
        /\ Has(participants[key], "uuid")
        /\ participants[key].uuid = key

=============================================================================
